---- MODULE Spec2Model ----
(***************************************************************************)
(* Dora_YOLO: a camera -> detector -> visualizer dataflow.                 *)
(*                                                                         *)
(*   Spec        the event loop of detector_node/src/main.rs (adaptive     *)
(*               frame skipping, detect, encode, send).                    *)
(*   SpecCodec   the 52-byte detection record: the encoder of the detector *)
(*               loop and the decoder of visualizer_node/src/main.rs.      *)
(*   SpecNms     yolo_postprocess of detector_node/src/lib.rs (decode and  *)
(*               non-maximum suppression), and YoloDetector::postprocess   *)
(*               of detector_node/src/main.rs.                             *)
(*                                                                         *)
(*   SpecLoops   the event loops of the four stages, one stage per run:    *)
(*               detector_node/src/main.rs, detector_node/src/lib.rs       *)
(*               (dora_node_main), visualizer_node/src/main.rs and         *)
(*               camera_node/src/main.rs.  The stages are separate         *)
(*               processes and share no variable.                          *)
(*                                                                         *)
(* Every specification uses its own variables and leaves the others at     *)
(* their idle values.                                                      *)
(***************************************************************************)
EXTENDS Integers, Sequences, FiniteSets, TLC

VARIABLES
    \* ---- detector_node/src/main.rs, fn main ----
    det_state,          \* "running", "finished" (break, Ok(())) or "failed" (main returned Err)
    model_loaded,       \* detector.model.is_some()
    skip_counter,       \* let mut skip_counter = 0
    process_interval,   \* let mut process_interval = 1
    frame_counter,      \* let mut frame_counter = 0
    should_process,     \* the decision taken for the most recent frame
    elapsed_ms,         \* the latency measured for the most recent processed frame
    detect_calls,       \* number of calls of detector.detect so far
    last_log,           \* the stderr line telling what the most recent event did (for a
                        \* processed frame, the line of the interval adjustment)
    outbox,             \* the messages sent while handling the most recent event
    frame_fit,          \* img_data.len() of the most recent frame against width * height * 3:
                        \* "equal", "shorter", "longer" ("none": no byte array yet)
    frame_id_in,        \* the frame_id parameter the capture stage attached to the most
                        \* recent frame (-1: no frame yet)
    skipped_run,        \* the frames skipped since the last processed frame (history)
    \* ---- the "detections" channel: detector encoder -> visualizer decoder ----
    sender,             \* the detector that sent last: "none", "main" (main.rs) or "lib" (lib.rs)
    detections,         \* the Vec<Detection> that detector serialised last
    wire,               \* the "detections" message in flight: <<>> or <<bytes>>
    last_detections,    \* visualizer: let mut last_detections: Vec<Detection>
    vis_state,          \* visualizer: "running" or "finished"
    vis_log,            \* visualizer: the last line logged
    vis_frame_counter,  \* visualizer: let mut frame_counter = 0
    overlay,            \* visualizer: the detections drawn on the most recent frame shown
    \* ---- detector_node/src/lib.rs, fn dora_node_main ----
    lib_state,          \* "off", "start", "running", "finished" (returned) or "failed" (panic)
    lib_log,            \* the last line written to stderr
    lib_frames,         \* number of "frame" inputs received so far
    lib_sent,           \* number of "detections" messages sent so far
    lib_fit,            \* data_bytes.len() of the most recent frame against 3 * 480 * 640
    \* ---- camera_node/src/main.rs, fn main ----
    cam_state,          \* "off", "running", "finished" or "failed" (panic)
    frame_count,        \* let mut frame_count = 0
    cam_log,            \* the last line printed
    cam_outbox,         \* the messages sent while handling the most recent event
    \* ---- post-processing of one raw model output ----
    output,             \* the raw output tensor, flat, channel-major: output[ch * N + i]
    pp_pc,              \* "idle", "input", "decoded", "suppressed" (lib.rs), "main" (main.rs)
                        \* or "drawn" (main.rs, then the visualizer)
    boxes,              \* lib.rs: let mut boxes, the candidates in anchor order
    keep,               \* lib.rs: the detections yolo_postprocess returns
    main_dets,          \* main.rs: the detections YoloDetector::postprocess returns
    rects               \* visualizer: the Rect drawn for each of these detections

dvars == <<det_state, model_loaded, skip_counter, process_interval, frame_counter,
           should_process, elapsed_ms, detect_calls, last_log, outbox, frame_fit,
           frame_id_in, skipped_run>>

cvars == <<sender, detections, wire, last_detections, vis_state, vis_log,
           vis_frame_counter, overlay>>

lvars == <<lib_state, lib_log, lib_frames, lib_sent, lib_fit>>

mvars == <<cam_state, frame_count, cam_log, cam_outbox>>

pvars == <<output, pp_pc, boxes, keep, main_dets, rects>>

vars == <<dvars, cvars, pvars, lvars, mvars>>

\* ------------------------------------------------------------------------
\* Bounds of the model
\* ------------------------------------------------------------------------
\* frames received by the detector loop in one run
MaxFrames == 22

\* detections in one DetectionSet encoded by the detector of main.rs
MaxDets == 2

\* detections in one list encoded by the detector of lib.rs
MaxLibDets == 3

\* anchors of a raw model output (num_boxes, 8400 in lib.rs, scaled down)
NumBoxes == 3

\* classes of a raw model output (80 in the source, scaled down)
NumClasses == 3

\* ------------------------------------------------------------------------
\* Helpers
\* ------------------------------------------------------------------------
Min(a, b) == IF a <= b THEN a ELSE b

Max(a, b) == IF a >= b THEN a ELSE b

\* ------------------------------------------------------------------------
\* detector_node/src/main.rs: adaptive frame skipping
\* ------------------------------------------------------------------------
\* elapsed_ms > 150
SlowMs == 150

\* elapsed_ms < 50
FastMs == 50

\* std::cmp::min(process_interval + 1, 10)
MaxInterval == 10

\* latencies the clock can report, around both thresholds
Latencies == {10, 49, 50, 100, 150, 151, 200}

\* ShouldProcess deciding on the counter after its increment
ShouldProcess_OffByOne(counter, interval) == (counter + 1) % interval = 0

\* let should_process = skip_counter % process_interval == 0;
ShouldProcess(counter, interval) == counter % interval = 0

\* AdjustInterval with the cap of the back-off forgotten
AdjustInterval_NoCap(interval, ms) ==
    IF ms > SlowMs THEN interval + 1
    ELSE IF ms < FastMs /\ interval > 1 THEN interval - 1
    ELSE interval

\* AdjustInterval backing off only from 200 ms on
AdjustInterval_Late(interval, ms) ==
    IF ms >= 200 THEN Min(interval + 1, MaxInterval)
    ELSE IF ms < FastMs /\ interval > 1 THEN interval - 1
    ELSE interval

\* AdjustInterval with both thresholds inclusive
AdjustInterval_Inclusive(interval, ms) ==
    IF ms >= SlowMs THEN Min(interval + 1, MaxInterval)
    ELSE IF ms <= FastMs /\ interval > 1 THEN interval - 1
    ELSE interval

\* AdjustInterval recovering in one jump instead of one step
AdjustInterval_Jump(interval, ms) ==
    IF ms > SlowMs THEN Min(interval + 1, MaxInterval)
    ELSE IF ms < FastMs /\ interval > 1 THEN 1
    ELSE interval

\* if elapsed_ms > 150 { min(interval + 1, 10) }
\* else if elapsed_ms < 50 && interval > 1 { interval - 1 }
AdjustInterval(interval, ms) ==
    IF ms > SlowMs THEN Min(interval + 1, MaxInterval)
    ELSE IF ms < FastMs /\ interval > 1 THEN interval - 1
    ELSE interval

\* the line written to stderr by the adjustment
AdjustLog(interval, ms) ==
    IF ms > SlowMs THEN "Increased"
    ELSE IF ms < FastMs /\ interval > 1 THEN "Decreased"
    ELSE "Took"

\* SendOutput tagging the forwarded frame with the next frame_id
SendOutput_NextId(id, fid, ok) ==
    IF ok THEN <<[id |-> id, frame_id |-> IF id = "frame" THEN fid + 1 ELSE fid]>>
    ELSE <<>>

\* one send_output_bytes call: the message when the send succeeds, nothing
\* when it fails (the failure is logged and the loop goes on)
SendOutput(id, fid, ok) == IF ok THEN <<[id |-> id, frame_id |-> fid]>> ELSE <<>>

\* a step of the detector loop leaves the other stages alone
DetOnly == UNCHANGED <<cvars, pvars, lvars, mvars>>

DetInit ==
    /\ det_state = "running"
    /\ model_loaded \in BOOLEAN
    /\ skip_counter = 0
    /\ process_interval = 1
    /\ frame_counter = 0
    /\ should_process = FALSE
    /\ elapsed_ms = 0
    /\ detect_calls = 0
    /\ last_log = "Ready"
    /\ outbox = <<>>
    /\ frame_fit = "none"
    /\ frame_id_in = -1
    /\ skipped_run = 0

\* img_data.len() against width * height * 3 (main.rs) or 3 * 480 * 640 (lib.rs)
FrameFits == {"equal", "shorter", "longer"}

\* the capture stage numbers the frames it sends 0, 1, 2, .. (frame_id =
\* frame_count, incremented after each successful send); with no frame lost
\* on the way, the frame received after k others carries frame_id k
IncomingFrameId(received) == received

SkippedOutput_Resend(fid) == SendOutput("detections", fid, TRUE)

\* the else branch of should_process: a line is logged, nothing is sent
SkippedOutput(fid) == <<>>

CountFrame_Reset(counter) == IF counter >= 3 THEN 0 ELSE counter + 1

\* skip_counter += 1
CountFrame(counter) == counter + 1

AfterErrorEvent_Exit == "finished"

\* Event::Error(e) => continue: the loop goes on
AfterErrorEvent == "running"

AfterStopEvent_Continue == "running"

\* Event::Stop(_) => break: the loop is left and the stage returns
AfterStopEvent == "finished"

\* Event::Input, id "frame", payload that is not a UInt8Array:
\* downcast_ref(..).context("Expected UInt8Array")? returns Err from main
FrameNotBytes ==
    /\ det_state = "running"
    /\ skip_counter < MaxFrames
    /\ det_state' = "failed"
    /\ last_log' = "Error: Expected UInt8Array"
    /\ outbox' = <<>>
    /\ frame_fit' = "none"
    /\ frame_id_in' = IncomingFrameId(skip_counter)
    /\ UNCHANGED <<model_loaded, skip_counter, process_interval, frame_counter,
                   should_process, elapsed_ms, detect_calls, skipped_run>>
    /\ DetOnly

\* Event::Input, id "frame", should_process false: the frame is skipped
FrameSkipped ==
    /\ det_state = "running"
    /\ skip_counter < MaxFrames
    /\ ~ShouldProcess(skip_counter, process_interval)
    /\ should_process' = FALSE
    /\ last_log' = "Skipping"
    /\ outbox' = SkippedOutput(frame_counter)
    /\ frame_fit' \in FrameFits
    /\ frame_id_in' = IncomingFrameId(skip_counter)
    /\ skip_counter' = CountFrame(skip_counter)
    /\ skipped_run' = skipped_run + 1
    /\ UNCHANGED <<det_state, model_loaded, process_interval, frame_counter,
                   elapsed_ms, detect_calls>>
    /\ DetOnly

\* Event::Input, id "frame", should_process true, detector.detect(..)? is Err
\* (preprocess, model.run or postprocess failed; only with a loaded model):
\* main returns Err
FrameDetectFailed ==
    /\ det_state = "running"
    /\ skip_counter < MaxFrames
    /\ ShouldProcess(skip_counter, process_interval)
    /\ model_loaded
    /\ should_process' = TRUE
    /\ detect_calls' = detect_calls + 1
    /\ det_state' = "failed"
    /\ last_log' = "Error: detect failed"
    /\ outbox' = <<>>
    /\ frame_fit' \in FrameFits
    /\ frame_id_in' = IncomingFrameId(skip_counter)
    /\ UNCHANGED <<model_loaded, skip_counter, process_interval, frame_counter,
                   elapsed_ms, skipped_run>>
    /\ DetOnly

\* Event::Input, id "frame", should_process true, a loaded model and more
\* bytes than width * height * 3: preprocess copies img_data.len() bytes into
\* a Mat of width * height * 3 bytes (copy_nonoverlapping, no length check),
\* which writes past the end of the buffer.  The behaviour is undefined: the
\* process may be killed (this action), or go on as FrameProcessed or
\* FrameDetectFailed
FrameCopyOverrun ==
    /\ det_state = "running"
    /\ skip_counter < MaxFrames
    /\ ShouldProcess(skip_counter, process_interval)
    /\ model_loaded
    /\ should_process' = TRUE
    /\ detect_calls' = detect_calls + 1
    /\ det_state' = "failed"
    /\ last_log' = "Preprocessing image"
    /\ outbox' = <<>>
    /\ frame_fit' = "longer"
    /\ frame_id_in' = IncomingFrameId(skip_counter)
    /\ UNCHANGED <<model_loaded, skip_counter, process_interval, frame_counter,
                   elapsed_ms, skipped_run>>
    /\ DetOnly

\* Event::Input, id "frame", should_process true, detect is Ok: measure the
\* latency, adjust the interval, encode, send "detections" then "frame".
\* detect never compares img_data.len() with width * height * 3: with a model
\* a shorter buffer leaves the rest of the Mat uninitialised, without a model
\* the bytes are not looked at
FrameProcessed ==
    /\ det_state = "running"
    /\ skip_counter < MaxFrames
    /\ ShouldProcess(skip_counter, process_interval)
    /\ \E ms \in Latencies, ok1 \in BOOLEAN, ok2 \in BOOLEAN :
          /\ should_process' = TRUE
          /\ detect_calls' = detect_calls + 1
          /\ elapsed_ms' = ms
          /\ process_interval' = AdjustInterval(process_interval, ms)
          /\ last_log' = AdjustLog(process_interval, ms)
          /\ outbox' = SendOutput("detections", frame_counter, ok1)
                          \o SendOutput("frame", frame_counter, ok2)
    /\ frame_fit' \in FrameFits
    /\ frame_id_in' = IncomingFrameId(skip_counter)
    /\ frame_counter' = frame_counter + 1
    /\ skip_counter' = CountFrame(skip_counter)
    /\ skipped_run' = 0
    /\ UNCHANGED <<det_state, model_loaded>>
    /\ DetOnly

\* Event::Input with another id
OtherInput ==
    /\ det_state = "running"
    /\ last_log' = "expected 'frame'"
    /\ outbox' = <<>>
    /\ UNCHANGED <<det_state, model_loaded, skip_counter, process_interval,
                   frame_counter, should_process, elapsed_ms, detect_calls,
                   frame_fit, frame_id_in, skipped_run>>
    /\ DetOnly

\* Event::Stop(_) => break
StopEvent ==
    /\ det_state = "running"
    /\ det_state' = AfterStopEvent
    /\ last_log' = "Received stop event"
    /\ outbox' = <<>>
    /\ UNCHANGED <<model_loaded, skip_counter, process_interval, frame_counter,
                   should_process, elapsed_ms, detect_calls, frame_fit,
                   frame_id_in, skipped_run>>
    /\ DetOnly

\* Event::Error(e) => continue
ErrorEvent ==
    /\ det_state = "running"
    /\ det_state' = AfterErrorEvent
    /\ last_log' = "Received error event"
    /\ outbox' = <<>>
    /\ UNCHANGED <<model_loaded, skip_counter, process_interval, frame_counter,
                   should_process, elapsed_ms, detect_calls, frame_fit,
                   frame_id_in, skipped_run>>
    /\ DetOnly

\* any other event
UnhandledEvent ==
    /\ det_state = "running"
    /\ last_log' = "unhandled event type"
    /\ outbox' = <<>>
    /\ UNCHANGED <<det_state, model_loaded, skip_counter, process_interval,
                   frame_counter, should_process, elapsed_ms, detect_calls,
                   frame_fit, frame_id_in, skipped_run>>
    /\ DetOnly

\* recv_timeout(1000 ms) returned None
RecvTimeout ==
    /\ det_state = "running"
    /\ last_log' = "No events received"
    /\ outbox' = <<>>
    /\ UNCHANGED <<det_state, model_loaded, skip_counter, process_interval,
                   frame_counter, should_process, elapsed_ms, detect_calls,
                   frame_fit, frame_id_in, skipped_run>>
    /\ DetOnly

\* ------------------------------------------------------------------------
\* Text and numbers of a Detection.  A String is the sequence of its UTF-8
\* bytes; an f32 (or u32) is its 32-bit pattern, written <<hi, lo>> as two
\* 16-bit halves to stay within the integers of the model checker.
\* ------------------------------------------------------------------------
\* s[..n]
Take(s, n) == SubSeq(s, 1, n)

\* vec![0; n]
Zeros(n) == [k \in 1..n |-> 0]

\* i.to_string() for an unsigned i, as ASCII digits
RECURSIVE Decimal(_)
Decimal(i) == IF i < 10 THEN <<48 + i>> ELSE Decimal(i \div 10) \o <<48 + (i % 10)>>

\* self.class_names[c] for the classes the model draws from the COCO list
ClassName(c) ==
    CASE c = 0 -> <<112, 101, 114, 115, 111, 110>>                       \* "person"
      [] c = 2 -> <<99, 97, 114>>                                        \* "car"
      [] c = 35 -> <<98, 97, 115, 101, 98, 97, 108, 108, 32,
                     103, 108, 111, 118, 101>>                           \* "baseball glove"
      [] OTHER -> <<99, 108, 97, 115, 115>> \o Decimal(c)

\* format!("{}_{}", self.class_names[c], i)
ObjectId(c, i) == ClassName(c) \o <<95>> \o Decimal(i)

\* f32::to_le_bytes
ToLeBytes(bits) ==
    <<bits[2] % 256, bits[2] \div 256, bits[1] % 256, bits[1] \div 256>>

\* f32::from_le_bytes([b0, b1, b2, b3])
FromLeBytes(b) == <<b[3] + 256 * b[4], b[1] + 256 * b[2]>>

\* ------------------------------------------------------------------------
\* detector_node/src/main.rs: serialising the detections
\* ------------------------------------------------------------------------
\* the fixed length of a text field
TextLen == 16

\* a text field copied whole, without the .min(16)
EncodeText_NoTruncate(bytes) ==
    bytes \o Zeros(Max(TextLen - Len(bytes), 0))

\* a text field cut to 15 bytes, keeping a terminating zero
EncodeText_Cut15(bytes) ==
    Take(bytes, Min(Len(bytes), TextLen - 1))
        \o Zeros(TextLen - Min(Len(bytes), TextLen - 1))

\* let n = bytes.len().min(16); extend(&bytes[..n]); extend(&vec![0; 16 - n])
EncodeText(bytes) ==
    Take(bytes, Min(Len(bytes), TextLen)) \o Zeros(TextLen - Min(Len(bytes), TextLen))

\* the bytes pushed for one detection
EncodeDetection(d) ==
    EncodeText(d.name) \o EncodeText(d.class_name)
        \o ToLeBytes(d.confidence) \o ToLeBytes(d.x) \o ToLeBytes(d.y)
        \o ToLeBytes(d.width) \o ToLeBytes(d.height)

\* for detection in &detections { .. }
RECURSIVE Encode(_)
Encode(ds) == IF ds = <<>> THEN <<>> ELSE EncodeDetection(Head(ds)) \o Encode(Tail(ds))

\* create_mock_detections(0): bit patterns of 0.95, 0.3, 0.4, 0.2, 0.4 and
\* of 0.87, 0.6, 0.5, 0.25, 0.2
MockDetections ==
    << [name |-> ObjectId(0, 0), class_name |-> ClassName(0),
        confidence |-> <<16243, 13107>>, x |-> <<16025, 39322>>,
        y |-> <<16076, 52429>>, width |-> <<15948, 52429>>,
        height |-> <<16076, 52429>>],
       [name |-> ObjectId(2, 0), class_name |-> ClassName(2),
        confidence |-> <<16222, 47186>>, x |-> <<16153, 39322>>,
        y |-> <<16128, 0>>, width |-> <<16000, 0>>,
        height |-> <<15948, 52429>>] >>

\* anchors and classes of the sampled model outputs
SampleAnchors == {1, 5, 10}

SampleClasses == {0, 35}

\* the five f32 values (confidence, x, y, width, height) postprocess computes
\* for a sampled anchor: ordinary values, a negative zero, a NaN, an infinity
SampleFloats(i) ==
    IF i = 5
    THEN <<<<15948, 52429>>, <<16128, 0>>, <<48896, 4660>>, <<32768, 0>>, <<16000, 0>>>>
    ELSE <<<<16222, 47186>>, <<32704, 0>>, <<16025, 39322>>, <<32640, 0>>, <<0, 1>>>>

\* detections.push(Detection { name: object_id, class_name, confidence, x, .. })
DetectionOf(c, i) ==
    [name |-> ObjectId(c, i), class_name |-> ClassName(c),
     confidence |-> SampleFloats(i)[1], x |-> SampleFloats(i)[2],
     y |-> SampleFloats(i)[3], width |-> SampleFloats(i)[4],
     height |-> SampleFloats(i)[5]]

\* sequences over S of length at most n
SeqsUpTo(S, n) == UNION {[1..k -> S] : k \in 0..n}

\* the <<class, anchor>> pairs postprocess can push in one call: the loop
\* visits the anchors in increasing order and pushes at most once per anchor
PushOrders ==
    {q \in SeqsUpTo(SampleClasses \X SampleAnchors, MaxDets) :
        \A k \in 1..(Len(q) - 1) : q[k][2] < q[k + 1][2]}

\* what detector.detect can return: the mock detections without a model, the
\* detections of postprocess with one
DetectOutputs ==
    {MockDetections}
        \cup {[k \in 1..Len(q) |-> DetectionOf(q[k][1], q[k][2])] : q \in PushOrders}

\* ------------------------------------------------------------------------
\* detector_node/src/lib.rs: serialising the detections (x1, y1, x2, y2, conf
\* as f32 and class_id as u32, 24 bytes each)
\* ------------------------------------------------------------------------
LibEncodeDetection(d) ==
    ToLeBytes(d.x1) \o ToLeBytes(d.y1) \o ToLeBytes(d.x2) \o ToLeBytes(d.y2)
        \o ToLeBytes(d.conf) \o ToLeBytes(d.class_id)

RECURSIVE LibEncode(_)
LibEncode(ds) ==
    IF ds = <<>> THEN <<>> ELSE LibEncodeDetection(Head(ds)) \o LibEncode(Tail(ds))

\* detections of yolo_postprocess, as bit patterns (boxes in pixels)
LibSampleDetections ==
    { [x1 |-> <<16672, 0>>, y1 |-> <<16800, 0>>, x2 |-> <<17096, 0>>,
       y2 |-> <<17224, 0>>, conf |-> <<16222, 47186>>, class_id |-> <<0, 0>>],
      [x1 |-> <<0, 0>>, y1 |-> <<0, 0>>, x2 |-> <<17440, 0>>,
       y2 |-> <<17392, 0>>, conf |-> <<16076, 52429>>, class_id |-> <<0, 35>>] }

\* let detection_size = 16 + 16 + 4 + 4 + 4 + 4 + 4;
DetectionSize == 52

\* bytes of one detection serialised by lib.rs: five f32 and one u32
LibDetectionSize == 24

\* the smallest number of lib.rs detections whose buffer length is a
\* multiple of the record size of the visualizer
LibAliasCount ==
    CHOOSE n \in 1..DetectionSize :
        /\ (LibDetectionSize * n) % DetectionSize = 0
        /\ \A m \in 1..(n - 1) : (LibDetectionSize * m) % DetectionSize # 0

\* that many detections of yolo_postprocess: the box (0, 60)..(200, 240) with
\* confidence 0.9 and class 0
LibAliasDetections ==
    [k \in 1..LibAliasCount |->
        [x1 |-> <<0, 0>>, y1 |-> <<17008, 0>>, x2 |-> <<17224, 0>>,
         y2 |-> <<17264, 0>>, conf |-> <<16230, 26214>>, class_id |-> <<0, 0>>]]

LibDetectOutputs ==
    SeqsUpTo(LibSampleDetections, MaxLibDets) \cup {LibAliasDetections}

\* ------------------------------------------------------------------------
\* visualizer_node/src/main.rs: parsing a "detections" input
\* ------------------------------------------------------------------------

\* is b a continuation byte within lo..hi
InRange(b, lo, hi) == lo <= b /\ b <= hi

\* str::from_utf8(bytes).is_ok(): the well-formed byte sequences of UTF-8
RECURSIVE IsUtf8(_)
IsUtf8(b) ==
    IF b = <<>> THEN TRUE
    ELSE LET n == Len(b)
             b1 == b[1]
         IN  IF b1 < 128 THEN IsUtf8(Tail(b))
             ELSE IF InRange(b1, 194, 223)
                  THEN n >= 2 /\ InRange(b[2], 128, 191) /\ IsUtf8(SubSeq(b, 3, n))
             ELSE IF InRange(b1, 224, 239)
                  THEN /\ n >= 3
                       /\ InRange(b[2], IF b1 = 224 THEN 160 ELSE 128,
                                        IF b1 = 237 THEN 159 ELSE 191)
                       /\ InRange(b[3], 128, 191)
                       /\ IsUtf8(SubSeq(b, 4, n))
             ELSE IF InRange(b1, 240, 244)
                  THEN /\ n >= 4
                       /\ InRange(b[2], IF b1 = 240 THEN 144 ELSE 128,
                                        IF b1 = 244 THEN 143 ELSE 191)
                       /\ InRange(b[3], 128, 191)
                       /\ InRange(b[4], 128, 191)
                       /\ IsUtf8(SubSeq(b, 5, n))
             ELSE FALSE

\* str::trim_start_matches('\0')
RECURSIVE TrimStart(_)
TrimStart(s) == IF s # <<>> /\ Head(s) = 0 THEN TrimStart(Tail(s)) ELSE s

\* str::trim_end_matches('\0')
RECURSIVE TrimEnd(_)
TrimEnd(s) == IF s # <<>> /\ s[Len(s)] = 0 THEN TrimEnd(Take(s, Len(s) - 1)) ELSE s

\* str::trim_matches('\0'): zero bytes are dropped at both ends
TrimMatches(s) == TrimEnd(TrimStart(s))

\* str::from_utf8(field).unwrap_or("").trim_matches('\0').to_string()
DecodeText(field) == IF IsUtf8(field) THEN TrimMatches(field) ELSE <<>>

\* DecodeChunk reading the numbers one field too early
DecodeChunk_Shifted(chunk) ==
    [name |-> DecodeText(SubSeq(chunk, 1, 16)),
     class_name |-> DecodeText(SubSeq(chunk, 17, 32)),
     confidence |-> FromLeBytes(SubSeq(chunk, 33, 36)),
     x |-> FromLeBytes(SubSeq(chunk, 33, 36)),
     y |-> FromLeBytes(SubSeq(chunk, 37, 40)),
     width |-> FromLeBytes(SubSeq(chunk, 41, 44)),
     height |-> FromLeBytes(SubSeq(chunk, 45, 48))]

\* one 52-byte chunk: chunk[0..16], chunk[16..32], chunk[32..36], ..
DecodeChunk(chunk) ==
    [name |-> DecodeText(SubSeq(chunk, 1, 16)),
     class_name |-> DecodeText(SubSeq(chunk, 17, 32)),
     confidence |-> FromLeBytes(SubSeq(chunk, 33, 36)),
     x |-> FromLeBytes(SubSeq(chunk, 37, 40)),
     y |-> FromLeBytes(SubSeq(chunk, 41, 44)),
     width |-> FromLeBytes(SubSeq(chunk, 45, 48)),
     height |-> FromLeBytes(SubSeq(chunk, 49, 52))]

\* for chunk in detection_data.chunks(detection_size) { if chunk.len() ==
\* detection_size { last_detections.push(..) } }
RECURSIVE DecodeChunks(_)
DecodeChunks(data) ==
    IF data = <<>> THEN <<>>
    ELSE IF Len(data) < DetectionSize THEN <<>>
    ELSE <<DecodeChunk(Take(data, DetectionSize))>>
            \o DecodeChunks(SubSeq(data, DetectionSize + 1, Len(data)))

\* the length test dropped: every whole chunk of any buffer is parsed
ParseDetections_Partial(old, data) ==
    [dets |-> DecodeChunks(data), log |-> "Parsed"]

\* ParseDetections without last_detections.clear()
ParseDetections_Append(old, data) ==
    IF Len(data) % DetectionSize = 0
    THEN [dets |-> old \o DecodeChunks(data), log |-> "Parsed"]
    ELSE [dets |-> old, log |-> "Invalid detection data size"]

\* if detection_data.len() % detection_size == 0 { last_detections.clear();
\* .. push .. } else { error!("Invalid detection data size") }
ParseDetections(old, data) ==
    IF Len(data) % DetectionSize = 0
    THEN [dets |-> DecodeChunks(data), log |-> "Parsed"]
    ELSE [dets |-> old, log |-> "Invalid detection data size"]

\* post-processing not in use
PostIdle ==
    /\ output = <<>>
    /\ pp_pc = "idle"
    /\ boxes = <<>>
    /\ keep = <<>>
    /\ main_dets = <<>>
    /\ rects = <<>>

\* the "detections" channel not in use
CodecIdle ==
    /\ sender = "none"
    /\ detections = <<>>
    /\ wire = <<>>
    /\ last_detections = <<>>
    /\ vis_state = "running"
    /\ vis_log = "Ready"
    /\ vis_frame_counter = 0
    /\ overlay = <<>>

\* the loop of lib.rs not in use
LibIdle ==
    /\ lib_state = "off"
    /\ lib_log = "none"
    /\ lib_frames = 0
    /\ lib_sent = 0
    /\ lib_fit = "none"

\* the camera loop not in use
CamIdle ==
    /\ cam_state = "off"
    /\ frame_count = 0
    /\ cam_log = "none"
    /\ cam_outbox = <<>>

\* a step on the "detections" channel leaves the detector loop alone
CodecOnly == UNCHANGED <<dvars, pvars, lvars, mvars>>

\* detector (main.rs): a processed frame whose detect returned ds; the
\* detections are serialised and sent as "detections"
DetectorSends ==
    /\ wire = <<>>
    /\ vis_state = "running"
    /\ \E ds \in DetectOutputs :
          /\ detections' = ds
          /\ wire' = <<Encode(ds)>>
    /\ sender' = "main"
    /\ UNCHANGED <<last_detections, vis_state, vis_log, vis_frame_counter, overlay>>
    /\ CodecOnly

\* detector (lib.rs, dora_node_main): the detections of yolo_postprocess are
\* serialised and sent as "detections"
LibDetectorSends ==
    /\ wire = <<>>
    /\ vis_state = "running"
    /\ \E ds \in LibDetectOutputs :
          /\ detections' = ds
          /\ wire' = <<LibEncode(ds)>>
    /\ sender' = "lib"
    /\ UNCHANGED <<last_detections, vis_state, vis_log, vis_frame_counter, overlay>>
    /\ CodecOnly

\* visualizer: Event::Input, id "detections", payload a UInt8Array
VisDetections ==
    /\ wire # <<>>
    /\ vis_state = "running"
    /\ LET r == ParseDetections(last_detections, wire[1])
       IN  /\ last_detections' = r.dets
           /\ vis_log' = r.log
    /\ wire' = <<>>
    /\ UNCHANGED <<sender, detections, vis_state, vis_frame_counter, overlay>>
    /\ CodecOnly

\* visualizer: Event::Input, id "detections", payload not a UInt8Array: the
\* if let Some(array) does not match and nothing happens
VisDetectionsNotBytes ==
    /\ vis_state = "running"
    /\ wire = <<>>
    /\ vis_log' = "Processing detections input"
    /\ UNCHANGED <<sender, detections, wire, last_detections, vis_state,
                   vis_frame_counter, overlay>>
    /\ CodecOnly

\* visualizer: Event::Stop(_) => break
VisStop ==
    /\ vis_state = "running"
    /\ wire = <<>>
    /\ vis_state' = AfterStopEvent
    /\ vis_log' = "Received stop event"
    /\ UNCHANGED <<sender, detections, wire, last_detections, vis_frame_counter, overlay>>
    /\ CodecOnly

CodecInit ==
    /\ CodecIdle
    /\ PostIdle
    /\ det_state = "running"
    /\ model_loaded = TRUE
    /\ skip_counter = 0
    /\ process_interval = 1
    /\ frame_counter = 0
    /\ should_process = FALSE
    /\ elapsed_ms = 0
    /\ detect_calls = 0
    /\ last_log = "Ready"
    /\ outbox = <<>>
    /\ frame_fit = "none"
    /\ frame_id_in = -1
    /\ skipped_run = 0
    /\ LibIdle
    /\ CamIdle

CodecNext ==
    \/ DetectorSends
    \/ LibDetectorSends
    \/ VisDetections
    \/ VisDetectionsNotBytes
    \/ VisStop

SpecCodec == CodecInit /\ [][CodecNext]_vars

\* ------------------------------------------------------------------------
\* Raw model outputs.  Scores and thresholds are in tenths, confidences
\* (products of two scores) in hundredths.  Box geometry is exact fixed
\* point: raw values in eighths, pixel coordinates doubled (so that w / 2.0
\* is exact), i.e. in sixteenths of a pixel.  Rounding of f32 is not modelled.
\* ------------------------------------------------------------------------
\* denominator of the raw geometry values
GeoDen == 8

\* yolo_postprocess(output_slice, 640, 480)
ImgW == 640

ImgH == 480

\* const CONF_THRESHOLD: f32 = 0.4
ConfThreshold == 4

\* const NMS_THRESHOLD: f32 = 0.5
NmsThreshold == 5

\* main.rs: if max_conf > 0.1
MainConfThreshold == 1

\* geometry of the sampled anchors <<cx, cy, w, h>>: three boxes in a row, each
\* overlapping the next by 3/5; a tall box around the first (IoU exactly 1/2);
\* a box whose centre is right of the frame
SampleGeometry ==
    { <<2, 4, 4, 4>>, <<3, 4, 4, 4>>, <<4, 4, 4, 4>>, <<2, 4, 4, 8>>, <<12, 4, 4, 4>> }

\* <<objectness, class scores>> that pass both confidence gates: 0.9 with
\* class 0, 0.8 with classes 1 and 2 tied, 0.9 again with class 1
SampleScoresKept == { <<10, <<9, 0, 0>>>>, <<10, <<0, 8, 8>>>>, <<9, <<0, 10, 0>>>> }

\* <<objectness, class scores>> at and below the gates: all zero; objectness
\* 0.3; product 0.35; product exactly 0.4
SampleScoresEdge ==
    { <<0, <<0, 0, 0>>>>, <<3, <<2, 0, 0>>>>, <<5, <<7, 0, 0>>>>, <<4, <<0, 0, 10>>>> }

\* class score c of a sampled anchor (zero beyond the sampled ones)
ScoreAt(scores, c) == IF c + 1 <= Len(scores) THEN scores[c + 1] ELSE 0

\* the 4 + 1 + NumClasses channel values of one anchor
AnchorRow(geo, sc) == geo \o <<sc[1]>> \o [c \in 1..NumClasses |-> ScoreAt(sc[2], c - 1)]

SampleRows ==
    {AnchorRow(g, sc) : g \in SampleGeometry, sc \in SampleScoresKept}
        \cup {AnchorRow(<<2, 4, 4, 4>>, sc) : sc \in SampleScoresEdge}

\* number of channels of the tensor
NumChannels == 4 + 1 + NumClasses

\* the tensor whose anchor i has the channel values rows[i + 1]
Tensor(rows) ==
    [k \in 1..(NumChannels * NumBoxes) |->
        rows[((k - 1) % NumBoxes) + 1][((k - 1) \div NumBoxes) + 1]]

RawOutputs == {Tensor(rows) : rows \in [1..NumBoxes -> SampleRows]}

\* the raw output in which every value is zero
ZeroOutput == [k \in 1..(NumChannels * NumBoxes) |-> 0]

\* ------------------------------------------------------------------------
\* detector_node/src/lib.rs: yolo_postprocess
\* ------------------------------------------------------------------------
\* output[ch * num_boxes + i]
At(out, ch, i) == out[ch * NumBoxes + i + 1]

\* LibBestClass taking a later class when it ties with the running maximum
RECURSIVE LibBestClass_LastMax(_, _, _, _)
LibBestClass_LastMax(out, i, c, best) ==
    IF c >= NumClasses THEN best
    ELSE LET score == At(out, 4 + 1 + c, i)
         IN  LibBestClass_LastMax(out, i, c + 1,
                                  IF score >= best[2] THEN <<c, score>> ELSE best)

\* for c in 0..80 { if score > max_class_score { max_class_score = score;
\* class_id = c } }, from class c on with the running <<class_id, max>>
RECURSIVE LibBestClass(_, _, _, _)
LibBestClass(out, i, c, best) ==
    IF c >= NumClasses THEN best
    ELSE LET score == At(out, 4 + 1 + c, i)
         IN  LibBestClass(out, i, c + 1, IF score > best[2] THEN <<c, score>> ELSE best)

\* the box of anchor i: centre and size scaled to pixels, corners clamped
LibBox(out, i, img_w, img_h, conf, class_id) ==
    LET cx == At(out, 0, i) * img_w
        cy == At(out, 1, i) * img_h
        w == At(out, 2, i) * img_w
        h == At(out, 3, i) * img_h
    IN  [x1 |-> Max(2 * cx - w, 0),
         y1 |-> Max(2 * cy - h, 0),
         x2 |-> Min(2 * cx + w, 2 * GeoDen * img_w),
         y2 |-> Min(2 * cy + h, 2 * GeoDen * img_h),
         conf |-> conf,
         class_id |-> class_id]

LibDecodeAnchor_NoGate(out, i, img_w, img_h) ==
    LET best == LibBestClass(out, i, 0, <<0, 0>>)
    IN  <<LibBox(out, i, img_w, img_h, At(out, 4, i) * best[2], best[1])>>

\* the body of for i in 0..num_boxes: nothing, or the box pushed
LibDecodeAnchor(out, i, img_w, img_h) ==
    LET obj_conf == At(out, 4, i)
        best == LibBestClass(out, i, 0, <<0, 0>>)
        conf == obj_conf * best[2]
    IN  IF obj_conf < ConfThreshold THEN <<>>
        ELSE IF conf < 10 * ConfThreshold THEN <<>>
        ELSE <<LibBox(out, i, img_w, img_h, conf, best[1])>>

\* for i in 0..num_boxes { .. boxes.push(..) }, from anchor i on
RECURSIVE LibDecode(_, _, _, _)
LibDecode(out, i, img_w, img_h) ==
    IF i >= NumBoxes THEN <<>>
    ELSE LibDecodeAnchor(out, i, img_w, img_h) \o LibDecode(out, i + 1, img_w, img_h)

\* b inserted into the sorted list s after every element that is not smaller
RECURSIVE InsertByConf(_, _)
InsertByConf(s, b) ==
    IF s = <<>> THEN <<b>>
    ELSE IF Head(s).conf >= b.conf THEN <<Head(s)>> \o InsertByConf(Tail(s), b)
    ELSE <<b>> \o s

SortByConf_None(s) == s

SortByConf_Reversed(s) == [k \in 1..Len(s) |-> s[Len(s) + 1 - k]]

\* boxes.sort_by(|a, b| b.conf.partial_cmp(&a.conf).unwrap()): stable,
\* confidence descending
RECURSIVE SortByConf(_)
SortByConf(s) ==
    IF s = <<>> THEN <<>>
    ELSE InsertByConf(SortByConf(Take(s, Len(s) - 1)), s[Len(s)])

\* IouExceeds with the threshold forgotten: any overlap counts
IouExceeds_AnyOverlap(a, b) ==
    LET inter_x1 == Max(a.x1, b.x1)
        inter_y1 == Max(a.y1, b.y1)
        inter_x2 == Min(a.x2, b.x2)
        inter_y2 == Min(a.y2, b.y2)
    IN  ~(inter_x1 >= inter_x2 \/ inter_y1 >= inter_y2)

\* IouExceeds comparing boxes of the same class only
IouExceeds_SameClass(a, b) ==
    LET inter_x1 == Max(a.x1, b.x1)
        inter_y1 == Max(a.y1, b.y1)
        inter_x2 == Min(a.x2, b.x2)
        inter_y2 == Min(a.y2, b.y2)
    IN  IF a.class_id # b.class_id THEN FALSE
        ELSE IF inter_x1 >= inter_x2 \/ inter_y1 >= inter_y2 THEN FALSE
        ELSE LET inter_area == (inter_x2 - inter_x1) * (inter_y2 - inter_y1)
                 area_a == (a.x2 - a.x1) * (a.y2 - a.y1)
                 area_b == (b.x2 - b.x1) * (b.y2 - b.y1)
             IN  10 * inter_area > NmsThreshold * (area_a + area_b - inter_area)

\* the test of the inner loop: the boxes overlap and iou > NMS_THRESHOLD
IouExceeds(a, b) ==
    LET inter_x1 == Max(a.x1, b.x1)
        inter_y1 == Max(a.y1, b.y1)
        inter_x2 == Min(a.x2, b.x2)
        inter_y2 == Min(a.y2, b.y2)
    IN  IF inter_x1 >= inter_x2 \/ inter_y1 >= inter_y2 THEN FALSE
        ELSE LET inter_area == (inter_x2 - inter_x1) * (inter_y2 - inter_y1)
                 area_a == (a.x2 - a.x1) * (a.y2 - a.y1)
                 area_b == (b.x2 - b.x1) * (b.y2 - b.y1)
             IN  10 * inter_area > NmsThreshold * (area_a + area_b - inter_area)

\* the inner loop looking at the next box only
Suppress_NextOnly(sorted, i, suppressed) ==
    suppressed \cup {j \in {i + 1} \cap (1..Len(sorted)) :
                        j \notin suppressed /\ IouExceeds(sorted[i], sorted[j])}

\* for j in (i + 1)..boxes.len() { if suppressed[j] { continue } .. if iou >
\* NMS_THRESHOLD { suppressed[j] = true } }
Suppress(sorted, i, suppressed) ==
    suppressed \cup {j \in (i + 1)..Len(sorted) :
                        j \notin suppressed /\ IouExceeds(sorted[i], sorted[j])}

\* for i in 0..boxes.len() { if suppressed[i] { continue } keep.push(i); .. },
\* from index i on: the indices kept
RECURSIVE NmsKeep(_, _, _)
NmsKeep(sorted, i, suppressed) ==
    IF i > Len(sorted) THEN <<>>
    ELSE IF i \in suppressed THEN NmsKeep(sorted, i + 1, suppressed)
    ELSE <<i>> \o NmsKeep(sorted, i + 1, Suppress(sorted, i, suppressed))

\* sort, suppress, keep.into_iter().map(|i| boxes[i].clone()).collect()
Nms(bs) ==
    LET sorted == SortByConf(bs)
        kept == NmsKeep(sorted, 1, {})
    IN  [k \in 1..Len(kept) |-> sorted[kept[k]]]

\* ------------------------------------------------------------------------
\* detector_node/src/main.rs: YoloDetector::postprocess
\* ------------------------------------------------------------------------
\* output_shape[detection_dim]: the number of anchors of the tensor
NumAnchors(out) == Len(out) \div NumChannels

\* output_values.get([0, ch, i])
MainAt(out, ch, i) == out[ch * NumAnchors(out) + i + 1]

\* let max_detections = num_detections.min(100)
MaxDetections == 100

\* a raw output of MaxDetections + 1 anchors, all zero but the last anchor,
\* whose class 0 has the score 1.0
WideAnchors == MaxDetections + 1

WideOutput ==
    LET row == AnchorRow(<<2, 4, 4, 4>>, <<10, <<9, 0, 0>>>>)
    IN  [k \in 1..(NumChannels * WideAnchors) |->
            IF (k - 1) % WideAnchors = WideAnchors - 1
            THEN row[((k - 1) \div WideAnchors) + 1]
            ELSE 0]

\* a raw output with its geometry in pixels, as postprocess of main.rs takes
\* it (x = bbox_x / img_width): anchor 0 is the box of 320 x 240 pixels
\* centred on (160, 240) with the score 1.0 for class 0, the rest is zero
PixelOutput ==
    LET row == AnchorRow(<<160 * GeoDen, 240 * GeoDen, 320 * GeoDen, 240 * GeoDen>>,
                         <<10, <<9, 0, 0>>>>)
    IN  [k \in 1..(NumChannels * NumBoxes) |->
            IF (k - 1) % NumBoxes = 0 THEN row[((k - 1) \div NumBoxes) + 1] ELSE 0]

\* a raw output whose anchor 0 has the values of channels 4 and 5 tied at 0.8
\* (the two best classes of postprocess of main.rs), the rest is zero
TieOutput ==
    LET row == AnchorRow(<<2, 4, 4, 4>>, <<8, <<8, 0, 0>>>>)
    IN  [k \in 1..(NumChannels * NumBoxes) |->
            IF (k - 1) % NumBoxes = 0 THEN row[((k - 1) \div NumBoxes) + 1] ELSE 0]

\* for c in 0..80 { if 4 + c < channels { if conf > max_conf { .. } } }
RECURSIVE MainBestClass(_, _, _, _)
MainBestClass(out, i, c, best) ==
    IF c >= NumClasses THEN best
    ELSE IF 4 + c < NumChannels
         THEN LET conf == MainAt(out, 4 + c, i)
              IN  MainBestClass(out, i, c + 1, IF conf > best[2] THEN <<c, conf>> ELSE best)
    ELSE MainBestClass(out, i, c + 1, best)

\* the body of for i in 0..max_detections: nothing, or the detection pushed;
\* x, y, width, height are bbox / img as <<numerator, denominator>>
MainDecodeAnchor(out, i, img_width, img_height) ==
    LET best == MainBestClass(out, i, 0, <<0, 0>>)
    IN  IF best[2] > MainConfThreshold /\ best[1] < NumClasses
        THEN <<[name |-> ObjectId(best[1], i),
                class_name |-> ClassName(best[1]),
                confidence |-> best[2],
                x |-> <<MainAt(out, 0, i), img_width>>,
                y |-> <<MainAt(out, 1, i), img_height>>,
                width |-> <<MainAt(out, 2, i), img_width>>,
                height |-> <<MainAt(out, 3, i), img_height>>]>>
        ELSE <<>>

\* for i in 0..max_detections, from anchor i on
RECURSIVE MainDecode(_, _, _, _)
MainDecode(out, i, img_width, img_height) ==
    IF i >= Min(NumAnchors(out), MaxDetections) THEN <<>>
    ELSE MainDecodeAnchor(out, i, img_width, img_height)
            \o MainDecode(out, i + 1, img_width, img_height)

\* ------------------------------------------------------------------------
\* Post-processing as steps
\* ------------------------------------------------------------------------
\* a step of post-processing leaves the stages' loops alone
PostOnly == UNCHANGED <<dvars, cvars, lvars, mvars>>

\* lib.rs, yolo_postprocess lines 27-62: the candidates of the raw output
LibDecodeStep ==
    /\ pp_pc = "input"
    /\ boxes' = LibDecode(output, 0, ImgW, ImgH)
    /\ pp_pc' = "decoded"
    /\ UNCHANGED <<output, keep, main_dets, rects>>
    /\ PostOnly

\* lib.rs, yolo_postprocess lines 64-90: sort and suppress
LibSuppressStep ==
    /\ pp_pc = "decoded"
    /\ keep' = Nms(boxes)
    /\ pp_pc' = "suppressed"
    /\ UNCHANGED <<output, boxes, main_dets, rects>>
    /\ PostOnly

\* main.rs, YoloDetector::postprocess on the same raw output
MainPostprocessStep ==
    /\ pp_pc = "input"
    /\ main_dets' = MainDecode(output, 0, ImgW, ImgH)
    /\ pp_pc' = "main"
    /\ UNCHANGED <<output, boxes, keep, rects>>
    /\ PostOnly

\* (v as i32): truncation toward zero of the quotient num / den, den > 0
Truncate(num, den) == IF num >= 0 THEN num \div den ELSE -((-num) \div den)

\* visualizer main.rs lines 131-143: the Rect of a detection on a frame of
\* width x height pixels; (x, y) is used as the top-left corner
DrawRect(d, width, height) ==
    LET x0 == Truncate(d.x[1] * width, GeoDen * d.x[2])
        y0 == Truncate(d.y[1] * height, GeoDen * d.y[2])
        w0 == Truncate(d.width[1] * width, GeoDen * d.width[2])
        h0 == Truncate(d.height[1] * height, GeoDen * d.height[2])
        x == Min(Max(x0, 0), width - 1)
        y == Min(Max(y0, 0), height - 1)
    IN  [x |-> x, y |-> y, width |-> Min(w0, width - x), height |-> Min(h0, height - y)]

\* the detections of postprocess, sent and decoded unchanged, are drawn by
\* the visualizer on the frame they were computed from
VisDrawStep ==
    /\ pp_pc = "main"
    /\ rects' = [k \in 1..Len(main_dets) |-> DrawRect(main_dets[k], ImgW, ImgH)]
    /\ pp_pc' = "drawn"
    /\ UNCHANGED <<output, boxes, keep, main_dets>>
    /\ PostOnly

PostInit ==
    /\ output \in RawOutputs \cup {ZeroOutput, WideOutput, PixelOutput, TieOutput}
    /\ pp_pc = "input"
    /\ boxes = <<>>
    /\ keep = <<>>
    /\ main_dets = <<>>
    /\ rects = <<>>
    /\ CodecIdle
    /\ det_state = "running"
    /\ model_loaded = TRUE
    /\ skip_counter = 0
    /\ process_interval = 1
    /\ frame_counter = 0
    /\ should_process = FALSE
    /\ elapsed_ms = 0
    /\ detect_calls = 0
    /\ last_log = "Ready"
    /\ outbox = <<>>
    /\ frame_fit = "none"
    /\ frame_id_in = -1
    /\ skipped_run = 0
    /\ LibIdle
    /\ CamIdle

PostNext ==
    \/ LibDecodeStep
    \/ LibSuppressStep
    \/ MainPostprocessStep
    \/ VisDrawStep

SpecNms == PostInit /\ [][PostNext]_vars

Next ==
    \/ FrameNotBytes
    \/ FrameSkipped
    \/ FrameDetectFailed
    \/ FrameCopyOverrun
    \/ FrameProcessed
    \/ OtherInput
    \/ StopEvent
    \/ ErrorEvent
    \/ UnhandledEvent
    \/ RecvTimeout

Init == DetInit /\ CodecIdle /\ PostIdle /\ LibIdle /\ CamIdle

Spec == Init /\ [][Next]_vars


\* ------------------------------------------------------------------------
\* visualizer_node/src/main.rs: the other events of the loop
\* ------------------------------------------------------------------------
\* "frame" inputs displayed by the visualizer in one run
MaxVisFrames == 2

\* detector (main.rs) without a model: detect returns create_mock_detections(0),
\* which is serialised and sent as "detections"
DetectorSendsMock ==
    /\ wire = <<>>
    /\ vis_state = "running"
    /\ detections' = MockDetections
    /\ wire' = <<Encode(MockDetections)>>
    /\ sender' = "main"
    /\ UNCHANGED <<last_detections, vis_state, vis_log, vis_frame_counter, overlay>>
    /\ CodecOnly

Overlay_Empty(dets) == <<>>

\* for detection in &last_detections { .. }: every detection of
\* last_detections is drawn, in order
Overlay(dets) == dets

\* Event::Input, id "frame", payload that is not a UInt8Array:
\* downcast_ref(..).context("Expected UInt8Array")? returns Err from main
VisFrameNotBytes ==
    /\ vis_state = "running"
    /\ vis_state' = "failed"
    /\ vis_log' = "Error: Expected UInt8Array"
    /\ UNCHANGED <<sender, detections, wire, last_detections, vis_frame_counter, overlay>>
    /\ CodecOnly

\* Event::Input, id "frame": one of the OpenCV calls followed by ? (creating
\* the Mat, rectangle, get_text_size, put_text) is Err: main returns Err
VisFrameDrawFailed ==
    /\ vis_state = "running"
    /\ vis_state' = "failed"
    /\ vis_log' = "Error: OpenCV"
    /\ UNCHANGED <<sender, detections, wire, last_detections, vis_frame_counter, overlay>>
    /\ CodecOnly

\* Event::Input, id "frame", more bytes than width * height * 3: the mismatch
\* is only warned about and copy_nonoverlapping writes img_data.len() bytes
\* past the end of the Mat.  The behaviour is undefined: the process may be
\* killed (this action) or go on as any other outcome of a "frame" input
VisFrameCopyOverrun ==
    /\ vis_state = "running"
    /\ vis_state' = "failed"
    /\ vis_log' = "Data size mismatch"
    /\ UNCHANGED <<sender, detections, wire, last_detections, vis_frame_counter, overlay>>
    /\ CodecOnly

\* Event::Input, id "frame": the boxes of last_detections are drawn on the
\* frame, the frame is shown (or showing fails, which is warned about), and
\* frame_counter += 1
VisFrame ==
    /\ vis_state = "running"
    /\ vis_frame_counter < MaxVisFrames
    /\ vis_frame_counter' = vis_frame_counter + 1
    /\ overlay' = Overlay(last_detections)
    /\ vis_log' = "Frame displayed"
    /\ UNCHANGED <<sender, detections, wire, last_detections, vis_state>>
    /\ CodecOnly

\* Event::Input, id "frame": the frame is shown and wait_key returns 'q' or
\* ESC => break
VisQuitKey ==
    /\ vis_state = "running"
    /\ vis_state' = "finished"
    /\ vis_log' = "Quit key pressed"
    /\ overlay' = Overlay(last_detections)
    /\ UNCHANGED <<sender, detections, wire, last_detections, vis_frame_counter>>
    /\ CodecOnly

\* Event::Input with an id other than "frame" and "detections"
VisOtherInput ==
    /\ vis_state = "running"
    /\ vis_log' = "ignoring"
    /\ UNCHANGED <<sender, detections, wire, last_detections, vis_state,
                   vis_frame_counter, overlay>>
    /\ CodecOnly

\* Event::Error(e) => continue
VisError ==
    /\ vis_state = "running"
    /\ vis_state' = AfterErrorEvent
    /\ vis_log' = "Received error event"
    /\ UNCHANGED <<sender, detections, wire, last_detections, vis_frame_counter, overlay>>
    /\ CodecOnly

\* any other event
VisUnhandled ==
    /\ vis_state = "running"
    /\ vis_log' = "Received other event"
    /\ UNCHANGED <<sender, detections, wire, last_detections, vis_state,
                   vis_frame_counter, overlay>>
    /\ CodecOnly

VisNext ==
    \/ DetectorSendsMock
    \/ LibDetectorSends
    \/ VisDetections
    \/ VisDetectionsNotBytes
    \/ VisFrameNotBytes
    \/ VisFrameDrawFailed
    \/ VisFrameCopyOverrun
    \/ VisFrame
    \/ VisQuitKey
    \/ VisOtherInput
    \/ VisStop
    \/ VisError
    \/ VisUnhandled

\* ------------------------------------------------------------------------
\* detector_node/src/lib.rs: dora_node_main
\* ------------------------------------------------------------------------
LibOnly == UNCHANGED <<dvars, cvars, pvars, mvars>>

LibInit ==
    /\ lib_state = "start"
    /\ lib_log = "none"
    /\ lib_frames = 0
    /\ lib_sent = 0
    /\ lib_fit = "none"

\* the model file is missing or does not load: a line is printed and
\* dora_node_main returns
LibLoadFailed ==
    /\ lib_state = "start"
    /\ lib_state' = "finished"
    /\ lib_log' = "Failed to load ONNX model"
    /\ UNCHANGED <<lib_frames, lib_sent, lib_fit>>
    /\ LibOnly

\* the model is loaded and DoraNode::init_from_env is Err: return
LibNodeInitFailed ==
    /\ lib_state = "start"
    /\ lib_state' = "finished"
    /\ lib_log' = "Failed to initialize DoraNode"
    /\ UNCHANGED <<lib_frames, lib_sent, lib_fit>>
    /\ LibOnly

\* the model is loaded, the node is initialised, the loop is entered
LibStarted ==
    /\ lib_state = "start"
    /\ lib_state' = "running"
    /\ UNCHANGED <<lib_log, lib_frames, lib_sent, lib_fit>>
    /\ LibOnly

\* Event::Input, id "frame", into_vec::<u8> is Err => continue
LibFrameNotBytes ==
    /\ lib_state = "running"
    /\ lib_frames < MaxFrames
    /\ lib_frames' = lib_frames + 1
    /\ lib_log' = "Failed to convert ArrowData to bytes"
    /\ lib_fit' = "none"
    /\ UNCHANGED <<lib_state, lib_sent>>
    /\ LibOnly

\* Event::Input, id "frame", data_bytes.len() < 3 * 480 * 640 => continue
LibFrameInsufficient ==
    /\ lib_state = "running"
    /\ lib_frames < MaxFrames
    /\ lib_frames' = lib_frames + 1
    /\ lib_log' = "Insufficient image data"
    /\ lib_fit' = "shorter"
    /\ UNCHANGED <<lib_state, lib_sent>>
    /\ LibOnly

\* Event::Input, id "frame", enough bytes; model.run is Err, or the output
\* is not a contiguous f32 array => continue
LibFrameRunFailed ==
    /\ lib_state = "running"
    /\ lib_frames < MaxFrames
    /\ lib_frames' = lib_frames + 1
    /\ lib_log' \in {"Model inference failed", "Failed to get output tensor as array",
                     "Failed to get output tensor as slice"}
    /\ lib_fit' \in {"equal", "longer"}
    /\ UNCHANGED <<lib_state, lib_sent>>
    /\ LibOnly

\* Event::Input, id "frame", enough bytes, the model ran; yolo_postprocess
\* panics: output[..] indexed past the end of the slice, or
\* partial_cmp(..).unwrap() on a NaN confidence
LibFramePanic ==
    /\ lib_state = "running"
    /\ lib_frames < MaxFrames
    /\ lib_frames' = lib_frames + 1
    /\ lib_state' = "failed"
    /\ lib_log' = "panicked"
    /\ lib_fit' \in {"equal", "longer"}
    /\ UNCHANGED lib_sent
    /\ LibOnly

\* Event::Input, id "frame", enough bytes (any length >= 3 * 480 * 640; the
\* first 640 * 640 pixels are used), the model ran: yolo_postprocess, encode,
\* send "detections"; a failed send => break
LibFrameProcessed ==
    /\ lib_state = "running"
    /\ lib_frames < MaxFrames
    /\ lib_frames' = lib_frames + 1
    /\ lib_fit' \in {"equal", "longer"}
    /\ \E ok \in BOOLEAN :
          /\ lib_sent' = IF ok THEN lib_sent + 1 ELSE lib_sent
          /\ lib_state' = IF ok THEN "running" ELSE "finished"
          /\ lib_log' = IF ok THEN "detections sent" ELSE "Failed to send detections"
    /\ LibOnly

\* Event::Stop(_) => break
LibStop ==
    /\ lib_state = "running"
    /\ lib_state' = AfterStopEvent
    /\ lib_log' = "stop event"
    /\ UNCHANGED <<lib_frames, lib_sent, lib_fit>>
    /\ LibOnly

\* _ => {}: an input with another id, an error event, any other event
LibOtherEvent ==
    /\ lib_state = "running"
    /\ lib_log' = "event ignored"
    /\ UNCHANGED <<lib_state, lib_frames, lib_sent, lib_fit>>
    /\ LibOnly

\* event_stream.recv() is None: the while let loop ends
LibStreamClosed ==
    /\ lib_state = "running"
    /\ lib_state' = "finished"
    /\ lib_log' = "stream closed"
    /\ UNCHANGED <<lib_frames, lib_sent, lib_fit>>
    /\ LibOnly

LibNext ==
    \/ LibLoadFailed
    \/ LibNodeInitFailed
    \/ LibStarted
    \/ LibFrameNotBytes
    \/ LibFrameInsufficient
    \/ LibFrameRunFailed
    \/ LibFramePanic
    \/ LibFrameProcessed
    \/ LibStop
    \/ LibOtherEvent
    \/ LibStreamClosed

\* ------------------------------------------------------------------------
\* camera_node/src/main.rs: the capture loop
\* ------------------------------------------------------------------------
CamOnly == UNCHANGED <<dvars, cvars, pvars, lvars>>

\* the node is initialised, the camera opened and warmed up
CamInit ==
    /\ cam_state = "running"
    /\ frame_count = 0
    /\ cam_log = "Warmup complete"
    /\ cam_outbox = <<>>

\* the end of a loop iteration: wait_key(1) returns 'q' or ESC => break
AfterKeyCheck(quit) == IF quit THEN "finished" ELSE "running"

\* Event::Input, id "tick", a frame is read: it is sent as "frame" with
\* frame_id = frame_count, and frame_count += 1 when the send succeeds
CamTick ==
    /\ cam_state = "running"
    /\ frame_count < MaxFrames
    /\ \E ok \in BOOLEAN, quit \in BOOLEAN :
          /\ cam_outbox' = SendOutput("frame", frame_count, ok)
          /\ frame_count' = IF ok THEN frame_count + 1 ELSE frame_count
          /\ cam_log' = IF quit THEN "Quit key pressed"
                        ELSE IF ok THEN "Sent frame" ELSE "Failed to send frame"
          /\ cam_state' = AfterKeyCheck(quit)
    /\ CamOnly

\* Event::Input, id "tick", cam.read returns false or the frame is empty
\* => continue
CamTickNoFrame ==
    /\ cam_state = "running"
    /\ cam_log' \in {"Failed to read frame", "Empty frame received"}
    /\ cam_outbox' = <<>>
    /\ UNCHANGED <<cam_state, frame_count>>
    /\ CamOnly

\* Event::Input, id "tick", cam.read or put_text is Err: unwrap panics
CamTickPanic ==
    /\ cam_state = "running"
    /\ cam_state' = "failed"
    /\ cam_log' = "panicked"
    /\ cam_outbox' = <<>>
    /\ UNCHANGED frame_count
    /\ CamOnly

\* Event::Input with another id: nothing is done
CamOtherInput ==
    /\ cam_state = "running"
    /\ \E quit \in BOOLEAN :
          /\ cam_log' = IF quit THEN "Quit key pressed" ELSE "input ignored"
          /\ cam_state' = AfterKeyCheck(quit)
    /\ cam_outbox' = <<>>
    /\ UNCHANGED frame_count
    /\ CamOnly

\* Event::Stop(_) => break
CamStop ==
    /\ cam_state = "running"
    /\ cam_state' = AfterStopEvent
    /\ cam_log' = "Received stop event"
    /\ cam_outbox' = <<>>
    /\ UNCHANGED frame_count
    /\ CamOnly

\* Event::Error(e) => continue (the key check of the iteration is skipped)
CamError ==
    /\ cam_state = "running"
    /\ cam_state' = AfterErrorEvent
    /\ cam_log' = "Received error event"
    /\ cam_outbox' = <<>>
    /\ UNCHANGED frame_count
    /\ CamOnly

\* any other event
CamUnhandled ==
    /\ cam_state = "running"
    /\ \E quit \in BOOLEAN :
          /\ cam_log' = IF quit THEN "Quit key pressed" ELSE "Received other event"
          /\ cam_state' = AfterKeyCheck(quit)
    /\ cam_outbox' = <<>>
    /\ UNCHANGED frame_count
    /\ CamOnly

\* recv_timeout(10 ms) returned None and the quit key is pressed => break
CamQuitKey ==
    /\ cam_state = "running"
    /\ cam_state' = AfterKeyCheck(TRUE)
    /\ cam_log' = "Quit key pressed"
    /\ cam_outbox' = <<>>
    /\ UNCHANGED frame_count
    /\ CamOnly

CamNext ==
    \/ CamTick
    \/ CamTickNoFrame
    \/ CamTickPanic
    \/ CamOtherInput
    \/ CamStop
    \/ CamError
    \/ CamUnhandled
    \/ CamQuitKey

\* ------------------------------------------------------------------------
\* The four loops, one stage per run
\* ------------------------------------------------------------------------
\* the detector of main.rs not started
DetOff ==
    /\ det_state = "off"
    /\ model_loaded = FALSE
    /\ skip_counter = 0
    /\ process_interval = 1
    /\ frame_counter = 0
    /\ should_process = FALSE
    /\ elapsed_ms = 0
    /\ detect_calls = 0
    /\ last_log = "none"
    /\ outbox = <<>>
    /\ frame_fit = "none"
    /\ frame_id_in = -1
    /\ skipped_run = 0

\* the visualizer not started
VisOff ==
    /\ sender = "none"
    /\ detections = <<>>
    /\ wire = <<>>
    /\ last_detections = <<>>
    /\ vis_state = "off"
    /\ vis_log = "none"
    /\ vis_frame_counter = 0
    /\ overlay = <<>>

LoopsInit ==
    /\ PostIdle
    /\ \/ DetInit /\ VisOff /\ LibIdle /\ CamIdle
       \/ DetOff /\ CodecIdle /\ LibIdle /\ CamIdle
       \/ DetOff /\ VisOff /\ LibInit /\ CamIdle
       \/ DetOff /\ VisOff /\ LibIdle /\ CamInit

LoopsNext ==
    \/ Next
    \/ VisNext
    \/ LibNext
    \/ CamNext

SpecLoops == LoopsInit /\ [][LoopsNext]_vars

\* ------------------------------------------------------------------------
\* Properties of the detector loop (Spec)
\* ------------------------------------------------------------------------
\* a step that handled a frame up to the skip decision
FrameDecided == skip_counter' = skip_counter + 1 \/ detect_calls' = detect_calls + 1

\* a step that processed a frame and measured its latency
FrameMeasured == detect_calls' = detect_calls + 1 /\ det_state' = "running"

\* C1: in every reachable state of the detector loop process_interval is an
\* integer between 1 and 10, whatever frames and latencies were seen.
C1_IntervalRange == process_interval \in 1..10

\* the cap was exercised: a slow frame processed with the interval at 10
C1_Witness ==
    process_interval = 10 /\ skip_counter > 10 /\ last_log = "Increased"

\* C2: a frame runs detect (and only then encodes and sends) exactly when
\* skip_counter % process_interval = 0 held for the values at its arrival.
C2_DecisionRule ==
    [][FrameDecided =>
          /\ (detect_calls' = detect_calls + 1) <=> (skip_counter % process_interval = 0)
          /\ should_process' <=> (skip_counter % process_interval = 0)
          /\ (outbox' # <<>>) => (skip_counter % process_interval = 0)]_vars

\* a frame was skipped after others were processed and sent
C2_Witness ==
    last_log = "Skipping" /\ ~should_process /\ frame_counter >= 2 /\ detect_calls >= 2

\* C9: a processed frame measured above 150 ms takes process_interval to
\* min(process_interval + 1, 10): one step up until 10, then it stays at 10.
C9_AdditiveBackoff ==
    [][(FrameMeasured /\ elapsed_ms' > 150) =>
          /\ process_interval < 10 => process_interval' = process_interval + 1
          /\ process_interval = 10 => process_interval' = 10]_vars

\* ten slow frames were processed from interval 1 and the interval is held at 10
C9_Witness ==
    /\ process_interval = 10
    /\ elapsed_ms > 150
    /\ should_process
    /\ frame_counter = 11
    /\ skip_counter = 11

\* C10: a processed frame measured below 50 ms takes process_interval down by
\* exactly 1 when it is above 1, and leaves it at 1 otherwise.
C10_AdditiveRecovery ==
    [][(FrameMeasured /\ elapsed_ms' < 50) =>
          /\ process_interval > 1 => process_interval' = process_interval - 1
          /\ process_interval = 1 => process_interval' = 1]_vars

\* the interval recovered step by step down to 1
C10_Witness ==
    /\ last_log = "Decreased"
    /\ process_interval = 1
    /\ elapsed_ms < 50
    /\ skip_counter > frame_counter

\* ------------------------------------------------------------------------
\* Properties of the "detections" channel (SpecCodec)
\* ------------------------------------------------------------------------
\* the buffer the detector of main.rs sent last has been parsed by the visualizer
Delivered == sender = "main" /\ wire = <<>>

\* every text field of ds fits its 16 bytes
FitsText(ds) ==
    \A k \in 1..Len(ds) : Len(ds[k].name) <= 16 /\ Len(ds[k].class_name) <= 16

\* the five numbers of two records agree
SameNumbers(a, b) ==
    /\ a.confidence = b.confidence
    /\ a.x = b.x
    /\ a.y = b.y
    /\ a.width = b.width
    /\ a.height = b.height

\* C4: a DetectionSet whose names and class names are at most 16 bytes comes
\* out of the visualizer's decoder as it went into the detector's encoder:
\* same records, same order, every field equal.
C4_RoundTrip == (Delivered /\ FitsText(detections)) => last_detections = detections

\* a set of two records, one name of exactly 16 bytes, went through
C4_Witness ==
    /\ Delivered
    /\ FitsText(detections)
    /\ Len(detections) = 2
    /\ \E k \in 1..2 : Len(detections[k].name) = 16
    /\ last_detections = detections

\* C5: a "detections" buffer whose length is not a multiple of 52 is rejected
\* as a whole: the error is logged, nothing of it is parsed, the visualizer
\* keeps running and keeps the DetectionSet it held.
C5_MalformedRejected ==
    [][(wire # <<>> /\ wire' = <<>> /\ Len(wire[1]) % 52 # 0) =>
          /\ last_detections' = last_detections
          /\ vis_log' = "Invalid detection data size"
          /\ vis_state' = "running"]_vars

\* a 72-byte buffer (one whole chunk and 20 bytes) was rejected while a
\* DetectionSet was held
C5_Witness ==
    /\ sender = "lib"
    /\ wire = <<>>
    /\ Len(detections) = 3
    /\ vis_log = "Invalid detection data size"
    /\ last_detections # <<>>

\* byte p (from 1) of a 16-byte text field holding text
TextByte(text, p) == IF p <= Len(text) THEN text[p] ELSE 0

\* the four bytes at buf[off+1..off+4] are the little-endian bytes of bits
LittleEndianAt(buf, off, bits) ==
    /\ buf[off + 1] + 256 * buf[off + 2] = bits[2]
    /\ buf[off + 3] + 256 * buf[off + 4] = bits[1]

\* C6: the encoder emits exactly 52 bytes per detection, also for names longer
\* than 16 bytes: record k holds name in its first 16 bytes, class_name in the
\* next 16 (each cut to 16 bytes, zero-padded), then confidence, x, y, width,
\* height as 4-byte little-endian numbers.
C6_RecordLayout ==
    (sender = "main" /\ wire # <<>>) =>
        LET buf == wire[1]
        IN  /\ Len(buf) = 52 * Len(detections)
            /\ \A k \in 1..Len(detections) :
                  LET d == detections[k]
                      base == 52 * (k - 1)
                  IN  /\ \A p \in 1..16 : buf[base + p] = TextByte(d.name, p)
                      /\ \A p \in 1..16 : buf[base + 16 + p] = TextByte(d.class_name, p)
                      /\ LittleEndianAt(buf, base + 32, d.confidence)
                      /\ LittleEndianAt(buf, base + 36, d.x)
                      /\ LittleEndianAt(buf, base + 40, d.y)
                      /\ LittleEndianAt(buf, base + 44, d.width)
                      /\ LittleEndianAt(buf, base + 48, d.height)

\* two records were encoded, the second one with a 17-byte name
C6_Witness ==
    /\ sender = "main"
    /\ wire # <<>>
    /\ Len(detections) = 2
    /\ Len(detections[2].name) = 17
    /\ Len(wire[1]) = 104

\* C7: a detection whose name (or class_name) is longer than 16 bytes comes
\* out of the decoder with that text cut to its first 16 bytes and every
\* other field as it was.
C7_TruncatedRoundTrip ==
    Delivered =>
        /\ Len(last_detections) = Len(detections)
        /\ \A k \in 1..Len(detections) :
              LET d == detections[k]
                  r == last_detections[k]
              IN  (Len(d.name) > 16 \/ Len(d.class_name) > 16) =>
                      /\ r.name = SubSeq(d.name, 1, IF Len(d.name) > 16 THEN 16 ELSE Len(d.name))
                      /\ r.class_name = SubSeq(d.class_name, 1,
                             IF Len(d.class_name) > 16 THEN 16 ELSE Len(d.class_name))
                      /\ SameNumbers(r, d)

\* "baseball glove_10" went through and came out as "baseball glove_1"
C7_Witness ==
    /\ Delivered
    /\ \E k \in 1..Len(detections) :
          /\ detections[k].name = ObjectId(35, 10)
          /\ Len(detections[k].name) = 17
          /\ k <= Len(last_detections)
          /\ last_detections[k].name = ObjectId(35, 1)

\* ------------------------------------------------------------------------
\* Properties of post-processing (SpecNms)
\* ------------------------------------------------------------------------
\* area of the axis-aligned overlap of two boxes, zero when they do not overlap
InterArea(a, b) ==
    LET ow == Min(a.x2, b.x2) - Max(a.x1, b.x1)
        oh == Min(a.y2, b.y2) - Max(a.y1, b.y1)
    IN  IF ow <= 0 \/ oh <= 0 THEN 0 ELSE ow * oh

BoxArea(a) == (a.x2 - a.x1) * (a.y2 - a.y1)

UnionArea(a, b) == BoxArea(a) + BoxArea(b) - InterArea(a, b)

\* intersection over union of a and b exceeds num / den
IoUAbove(a, b, num, den) ==
    UnionArea(a, b) > 0 /\ den * InterArea(a, b) > num * UnionArea(a, b)

\* C3: the list the Suppressor returns holds no two boxes whose
\* intersection over union exceeds the threshold (0.5).
C3_NoOverlappingSurvivors ==
    pp_pc = "suppressed" =>
        \A a \in 1..Len(keep) : \A b \in 1..Len(keep) :
            a # b => ~IoUAbove(keep[a], keep[b], 1, 2)

\* of three candidates one was suppressed and the two survivors still overlap
C3_Witness ==
    /\ pp_pc = "suppressed"
    /\ Len(boxes) = 3
    /\ Len(keep) = 2
    /\ InterArea(keep[1], keep[2]) > 0

\* C8: every candidate the Detection Decoder outputs, in yolo_postprocess of
\* lib.rs and in YoloDetector::postprocess of main.rs, has a confidence of at
\* least CONF_THRESHOLD (0.4).
C8_ConfidenceAtLeastThreshold ==
    /\ pp_pc = "decoded" => \A k \in 1..Len(boxes) : boxes[k].conf >= 40
    /\ pp_pc = "main" => \A k \in 1..Len(main_dets) : main_dets[k].confidence >= 4

\* ------------------------------------------------------------------------
\* Properties of the detector loop, continued (Spec)
\* ------------------------------------------------------------------------
\* the "detections" messages among msgs
DetectionsIn(msgs) == {k \in 1..Len(msgs) : msgs[k].id = "detections"}

\* C11: a frame the decision rule skips is not passed to detect and sends
\* nothing, and no step of the loop sends more "detections" messages than it
\* chose frames to process; summed over a run, the "detections" messages
\* never outnumber the frames chosen for processing.
C11_SkippedSendsNothing ==
    [][ /\ (FrameDecided /\ skip_counter % process_interval # 0)
            => (outbox' = <<>> /\ detect_calls' = detect_calls)
        /\ Cardinality(DetectionsIn(outbox')) <= detect_calls' - detect_calls ]_vars

C11_Witness ==
    /\ last_log = "Skipping"
    /\ outbox = <<>>
    /\ frame_counter >= 1
    /\ skip_counter > detect_calls

\* the lines that end the handling of a "frame" input that returns to the loop
FrameHandledLogs == {"Skipping", "Increased", "Decreased", "Took"}

\* C12: every "frame" input handled to the end of its branch, processed or
\* skipped, adds exactly one to skip_counter; every other step (another
\* input id, an error event, an unhandled event, a receive timeout, a stop)
\* leaves skip_counter unchanged, so it is never reset or decremented.
C12_SkipCounterCountsFrames ==
    [][ IF last_log' \in FrameHandledLogs
        THEN skip_counter' = skip_counter + 1
        ELSE skip_counter' = skip_counter ]_vars

C12_Witness ==
    /\ skip_counter = 5
    /\ detect_calls = 3
    /\ last_log = "No events received"

\* C13: a frame on which detect fails is skipped (nothing is sent for it) and
\* the detector loop is still running afterwards.
C13_InferenceFailureRecovered ==
    last_log = "Error: detect failed" => (det_state = "running" /\ outbox = <<>>)

\* C15: after a "frame" input whose payload is not a byte array the detector
\* loop is still running.
C15_MalformedSkipped ==
    last_log = "Error: Expected UInt8Array" => det_state = "running"

\* C18: a frame whose buffer length differs from width * height * 3 is
\* skipped: detect is not run on it, nothing is sent for it, and the loop is
\* still running.
C18_InvalidFrameRejected ==
    frame_fit \in {"shorter", "longer"}
        => (det_state = "running" /\ outbox = <<>> /\ should_process = FALSE)

\* ------------------------------------------------------------------------
\* Properties of the four loops (SpecLoops)
\* ------------------------------------------------------------------------
\* the lines that end a processed frame of the detector of main.rs
FrameSentLogs == {"Increased", "Decreased", "Took"}

\* C14: a model that is missing or fails to load does not end the detection
\* stage: dora_node_main of lib.rs is in its loop after the failed load, and
\* the detector of main.rs without a model is still running after a
\* processed frame.
C14_ModelUnavailableKeepsRunning ==
    /\ lib_log = "Failed to load ONNX model" => lib_state = "running"
    /\ (~model_loaded /\ last_log \in FrameSentLogs) => det_state = "running"

\* C16: an error event from the transport leaves the stage in its loop,
\* sends nothing and changes no loop state: in the detector the pacing state
\* and the frame counter, in the visualizer the last detections and the frame
\* counter, in the camera the frame count.
C16_ErrorEventContinues ==
    [][ /\ last_log' = "Received error event"
            => /\ det_state' = "running"
               /\ outbox' = <<>>
               /\ UNCHANGED <<skip_counter, process_interval, frame_counter,
                              detect_calls, model_loaded>>
        /\ vis_log' = "Received error event"
            => /\ vis_state' = "running"
               /\ UNCHANGED <<last_detections, vis_frame_counter>>
        /\ cam_log' = "Received error event"
            => /\ cam_state' = "running"
               /\ cam_outbox' = <<>>
               /\ UNCHANGED frame_count ]_vars

C16_Witness ==
    /\ last_log = "Received error event"
    /\ det_state = "running"
    /\ process_interval = 3
    /\ frame_counter >= 3

\* C17: the step that receives the stop signal sends nothing and ends the
\* stage, and a stage that has ended changes nothing and sends nothing
\* again; this holds in the detector of main.rs, in dora_node_main of lib.rs
\* and in the visualizer.
C17_StopEndsStage ==
    [][ /\ last_log' = "Received stop event"
            => (det_state' = "finished" /\ outbox' = <<>>)
        /\ det_state = "finished" => UNCHANGED dvars
        /\ lib_log' = "stop event"
            => (lib_state' = "finished" /\ lib_sent' = lib_sent)
        /\ lib_state = "finished" => UNCHANGED lvars
        /\ vis_log' = "Received stop event" => vis_state' = "finished"
        /\ vis_state = "finished"
            => UNCHANGED <<last_detections, vis_state, vis_log, vis_frame_counter>> ]_vars

C17_Witness ==
    /\ last_log = "Received stop event"
    /\ det_state = "finished"
    /\ frame_counter >= 2
    /\ skip_counter > frame_counter

\* ------------------------------------------------------------------------
\* Properties of post-processing, continued (SpecNms)
\* ------------------------------------------------------------------------
\* C19: every candidate yolo_postprocess decodes has its four corners inside
\* the frame: 0 <= x1, x2 <= img_w and 0 <= y1, y2 <= img_h.
C19_CornersClamped ==
    pp_pc = "decoded" =>
        \A k \in 1..Len(boxes) :
            /\ 0 <= boxes[k].x1 /\ boxes[k].x1 <= 2 * GeoDen * ImgW
            /\ 0 <= boxes[k].x2 /\ boxes[k].x2 <= 2 * GeoDen * ImgW
            /\ 0 <= boxes[k].y1 /\ boxes[k].y1 <= 2 * GeoDen * ImgH
            /\ 0 <= boxes[k].y2 /\ boxes[k].y2 <= 2 * GeoDen * ImgH

\* C20: the list the Suppressor returns is in confidence-descending order:
\* of two consecutive boxes the earlier one's confidence is >= the later's.
C20_SurvivorsDescending ==
    pp_pc = "suppressed" =>
        \A k \in 1..(Len(keep) - 1) : keep[k].conf >= keep[k + 1].conf

\* the candidates came in ascending order and two survivors differ
C20_Witness ==
    /\ pp_pc = "suppressed"
    /\ Len(boxes) >= 2
    /\ boxes[1].conf < boxes[2].conf
    /\ Len(keep) >= 2
    /\ keep[1].conf > keep[2].conf

\* C21: on two candidates whose intersection over union exceeds
\* NMS_THRESHOLD and whose confidences differ, the Suppressor returns exactly
\* the candidate of higher confidence.
C21_TwoBoxesKeepHigher ==
    (/\ pp_pc = "suppressed"
     /\ Len(boxes) = 2
     /\ IoUAbove(boxes[1], boxes[2], NmsThreshold, 10)
     /\ boxes[1].conf # boxes[2].conf)
        => keep = <<IF boxes[1].conf > boxes[2].conf THEN boxes[1] ELSE boxes[2]>>

\* the candidate of lower confidence came first and was dropped
C21_Witness ==
    /\ pp_pc = "suppressed"
    /\ Len(boxes) = 2
    /\ IoUAbove(boxes[1], boxes[2], NmsThreshold, 10)
    /\ boxes[1].conf < boxes[2].conf
    /\ keep = <<boxes[2]>>

\* C22: a raw output in which every value is zero decodes to an empty
\* candidate list, in yolo_postprocess and in YoloDetector::postprocess, and
\* the Suppressor returns an empty list for an empty candidate list.
C22_ZeroOutputEmpty ==
    /\ output = ZeroOutput => (boxes = <<>> /\ main_dets = <<>>)
    /\ (pp_pc = "suppressed" /\ boxes = <<>>) => keep = <<>>

C22_Witness ==
    /\ output = ZeroOutput
    /\ pp_pc = "suppressed"
    /\ keep = <<>>

\* C30: every anchor of the raw output that passes the threshold appears
\* in the candidate list: in YoloDetector::postprocess every anchor
\* 0..N-1 with a class score over 0.1 has a detection named after it, and
\* yolo_postprocess holds one candidate for each of its num_boxes anchors
\* that pass both gates.
C30_EveryAnchorExamined ==
    /\ pp_pc = "main" =>
          \A i \in 0..(NumAnchors(output) - 1) :
              (\E c \in 0..(NumClasses - 1) : MainAt(output, 4 + c, i) > MainConfThreshold)
                  => \E k \in 1..Len(main_dets), c \in 0..(NumClasses - 1) :
                        main_dets[k].name = ObjectId(c, i)
    /\ pp_pc = "decoded" =>
          Len(boxes) = Cardinality({i \in 0..(NumBoxes - 1) :
                          /\ At(output, 4, i) >= ConfThreshold
                          /\ \E c \in 0..(NumClasses - 1) :
                                At(output, 4, i) * At(output, 4 + 1 + c, i)
                                    >= 10 * ConfThreshold})

\* ------------------------------------------------------------------------
\* Properties of the detector loop, continued (Spec)
\* ------------------------------------------------------------------------
\* C23: the frame_id of every "detections" message the detector sends is
\* the frame_id the capture stage attached to the frame it was computed from.
C23_FrameIdPreserved ==
    \A k \in DetectionsIn(outbox) : outbox[k].frame_id = frame_id_in

\* C29: whatever latencies are measured, the detector loop never skips more
\* than 9 frames in a row: between two consecutive processed frames, and
\* after the last processed frame, at most 9 frames are skipped.
C29_BoundedSkipping == skipped_run <= 9

\* nine frames in a row have been skipped at the longest interval
C29_Witness ==
    /\ skipped_run = 9
    /\ process_interval = MaxInterval
    /\ last_log = "Skipping"

\* ------------------------------------------------------------------------
\* Properties of the visualizer loop (SpecLoops)
\* ------------------------------------------------------------------------
\* C24: a "frame" input that is shown is drawn with exactly the detections
\* decoded from the most recent accepted "detections" message (none before
\* the first); last_detections changes only when a "detections" message is
\* accepted, then to the records decoded from it: a frame, an error event,
\* an input with another id and a rejected buffer leave it unchanged.
C24_OverlayIsLastDecoded ==
    [][ /\ (\/ vis_frame_counter' = vis_frame_counter + 1
             \/ (vis_state = "running" /\ vis_log' = "Quit key pressed"))
            => (overlay' = last_detections /\ last_detections' = last_detections)
        /\ IF wire # <<>> /\ wire' = <<>> /\ vis_log' = "Parsed"
           THEN last_detections' = DecodeChunks(wire[1])
           ELSE last_detections' = last_detections ]_vars

\* a frame shown with the mock detections while a rejected 24-byte buffer
\* was the last "detections" message
C24_Witness ==
    /\ vis_log = "Frame displayed"
    /\ overlay = MockDetections
    /\ sender = "lib"
    /\ Len(detections) = 1
    /\ wire = <<>>

\* ------------------------------------------------------------------------
\* Properties of the "detections" channel, continued (SpecCodec)
\* ------------------------------------------------------------------------
\* the bytes of the "detections" message sent last
SentBytes == IF sender = "lib" THEN LibEncode(detections) ELSE Encode(detections)

\* the "detections" message sent last has been handled by the visualizer
Handled == sender # "none" /\ wire = <<>>

\* C25: every "detections" buffer a detector sends for n detections, the
\* detector of main.rs and the one of lib.rs alike, has 52 * n bytes and is
\* decoded by the visualizer into n records.
C25_OneWireLayout ==
    /\ sender # "none" => Len(SentBytes) = DetectionSize * Len(detections)
    /\ Handled => Len(last_detections) = Len(detections)

\* the 16-byte text field at offset off (0 or 16) of record k of buf
TextField(buf, k, off) ==
    SubSeq(buf, DetectionSize * (k - 1) + off + 1, DetectionSize * (k - 1) + off + TextLen)

\* C27: the name and the class_name decoded from a record are its 16-byte
\* fields with the trailing zero bytes removed and every other byte kept.
C27_TrailingZerosTrimmed ==
    (Handled /\ vis_log = "Parsed") =>
        \A k \in 1..Len(last_detections) :
            /\ last_detections[k].name = TrimEnd(TextField(SentBytes, k, 0))
            /\ last_detections[k].class_name = TrimEnd(TextField(SentBytes, k, TextLen))

\* ------------------------------------------------------------------------
\* Properties of post-processing, continued (SpecNms)
\* ------------------------------------------------------------------------
\* the corners of the centre-form box of a detection of main.rs, doubled
MainCorners(d) ==
    [x1 |-> 2 * d.x[1] - d.width[1], x2 |-> 2 * d.x[1] + d.width[1],
     y1 |-> 2 * d.y[1] - d.height[1], y2 |-> 2 * d.y[1] + d.height[1]]

\* C26: the detections the detector of main.rs encodes and sends have passed
\* through the Suppressor: no two of them have an intersection over union
\* above NMS_THRESHOLD.
C26_SentSetSuppressed ==
    pp_pc \in {"main", "drawn"} =>
        \A a \in 1..Len(main_dets) : \A b \in 1..Len(main_dets) :
            a # b => ~IoUAbove(MainCorners(main_dets[a]), MainCorners(main_dets[b]),
                               NmsThreshold, 10)

\* C28: the rectangle the visualizer draws for a detection of main.rs whose
\* centre-form box lies inside the frame is that box: it is centred on
\* (x * width, y * height), within the pixel lost to truncation, and has the
\* encoded size.
C28_CentreFormDrawn ==
    pp_pc = "drawn" =>
        \A k \in 1..Len(main_dets) :
            LET c == MainCorners(main_dets[k])
                cx == Truncate(main_dets[k].x[1] * ImgW, GeoDen * main_dets[k].x[2])
                cy == Truncate(main_dets[k].y[1] * ImgH, GeoDen * main_dets[k].y[2])
            IN  (c.x1 >= 0 /\ c.y1 >= 0 /\ c.x2 <= 2 * GeoDen * ImgW /\ c.y2 <= 2 * GeoDen * ImgH)
                    => /\ 2 * rects[k].x + rects[k].width \in (2 * cx - 2)..(2 * cx + 2)
                       /\ 2 * rects[k].y + rects[k].height \in (2 * cy - 2)..(2 * cy + 2)

\* ------------------------------------------------------------------------
\* Properties of the decoders, continued (SpecNms)
\* ------------------------------------------------------------------------
\* the lowest index at which the function f takes its maximum
LowestArgMax(f) ==
    CHOOSE c \in DOMAIN f :
        /\ \A d \in DOMAIN f : f[d] <= f[c]
        /\ \A d \in DOMAIN f : d < c => f[d] < f[c]

\* the class scores of anchor i of a tensor of n anchors whose class 0 is
\* channel base
ClassScores(out, n, base, i) ==
    [c \in 0..(NumClasses - 1) |-> out[(base + c) * n + i + 1]]

\* the anchors of out that pass both gates of yolo_postprocess, in order
LibCandidateAnchors(out) ==
    SelectSeq([k \in 1..NumBoxes |-> k - 1],
              LAMBDA i :
                 LET sc == ClassScores(out, NumBoxes, 4 + 1, i)
                 IN  /\ At(out, 4, i) >= ConfThreshold
                     /\ At(out, 4, i) * sc[LowestArgMax(sc)] >= 10 * ConfThreshold)

\* C31: the class of every candidate is the index of the maximum class score
\* of its anchor, the lowest such index when several classes share the
\* maximum; in yolo_postprocess of lib.rs and in postprocess of main.rs.
C31_LowestArgMaxClass ==
    /\ pp_pc = "decoded" =>
          LET anchors == LibCandidateAnchors(output)
          IN  /\ Len(boxes) = Len(anchors)
              /\ \A k \in 1..Len(boxes) :
                    boxes[k].class_id
                        = LowestArgMax(ClassScores(output, NumBoxes, 4 + 1, anchors[k]))
    /\ pp_pc = "main" =>
          \A k \in 1..Len(main_dets) :
              \E i \in 0..(NumAnchors(output) - 1) :
                  LET c == LowestArgMax(ClassScores(output, NumAnchors(output), 4, i))
                  IN  /\ main_dets[k].name = ObjectId(c, i)
                      /\ main_dets[k].class_name = ClassName(c)

\* every anchor gave a candidate and one of them has its two best classes
\* tied: the lower of the two is its class
C31_Witness ==
    /\ pp_pc = "decoded"
    /\ Len(boxes) = NumBoxes
    /\ \E i \in 0..(NumBoxes - 1) :
          /\ At(output, 4 + 1 + 1, i) = At(output, 4 + 1 + 2, i)
          /\ At(output, 4 + 1 + 1, i) > At(output, 4 + 1, i)
          /\ boxes[i + 1].class_id = 1

\* postprocess of main.rs on an anchor whose channels 4 and 5 are tied: the
\* detection is named after class 0
C31_WitnessMain ==
    /\ pp_pc = "main"
    /\ output = TieOutput
    /\ main_dets # <<>>
    /\ main_dets[1].name = ObjectId(0, 0)

\* ------------------------------------------------------------------------
\* Properties of the suppression, continued (SpecNms)
\* ------------------------------------------------------------------------
\* the boxes of bs with their class forgotten
WithoutClass(bs) == [k \in 1..Len(bs) |-> [bs[k] EXCEPT !.class_id = 0]]

\* the intersection over union of the boxes a and b is above NMS_THRESHOLD
\* (corners as in lib.rs; empty intersections are not above)
Overlapping(a, b) == IoUAbove(a, b, NmsThreshold, 10)

\* C32: suppression is not class-aware.  No candidate survives next to a
\* surviving candidate of higher confidence whose intersection over union
\* with it is above NMS_THRESHOLD, whatever the classes of the two; and the
\* survivors are the same, class aside, when every candidate is given the
\* same class.
C32_NotClassAware ==
    pp_pc = "suppressed" =>
        /\ \A k \in 1..Len(boxes) :
              (\E s \in 1..Len(keep) :
                  /\ keep[s].conf > boxes[k].conf
                  /\ Overlapping(keep[s], boxes[k]))
                => \A t \in 1..Len(keep) : keep[t] # boxes[k]
        /\ WithoutClass(keep) = Nms(WithoutClass(boxes))

\* a candidate was suppressed, and every survivor that overlaps it above
\* the threshold has another class
C32_Witness ==
    /\ pp_pc = "suppressed"
    /\ \E k \in 1..Len(boxes) :
          /\ \A t \in 1..Len(keep) : keep[t] # boxes[k]
          /\ \E s \in 1..Len(keep) :
                /\ keep[s].conf > boxes[k].conf
                /\ Overlapping(keep[s], boxes[k])
          /\ \A s \in 1..Len(keep) :
                Overlapping(keep[s], boxes[k]) => keep[s].class_id # boxes[k].class_id

\* ------------------------------------------------------------------------
\* Properties of the "detections" channel, continued (SpecCodec)
\* ------------------------------------------------------------------------
\* C33: the names of the detections the visualizer decoded from one
\* "detections" message of the detector of main.rs are pairwise distinct.
C33_NamesDistinct ==
    (Handled /\ sender = "main" /\ vis_log = "Parsed") =>
        \A a \in 1..Len(last_detections) : \A b \in 1..Len(last_detections) :
            a # b => last_detections[a].name # last_detections[b].name

\* ------------------------------------------------------------------------
\* Properties of the suppression, continued (SpecNms)
\* ------------------------------------------------------------------------
\* the number of elements of the sequence s equal to v
Count(s, v) == Cardinality({k \in 1..Len(s) : s[k] = v})

\* t is s with some elements left out
RECURSIVE IsSubSeq(_, _)
IsSubSeq(t, s) ==
    IF t = <<>> THEN TRUE
    ELSE IF s = <<>> THEN FALSE
    ELSE IF Head(t) = Head(s) THEN IsSubSeq(Tail(t), Tail(s))
    ELSE IsSubSeq(t, Tail(s))

\* C34: the Suppressor never over-suppresses.  Its result is a sub-list of
\* the candidates sorted by confidence, the candidate of the highest
\* confidence survives, and every candidate that was removed has an
\* intersection over union above NMS_THRESHOLD with a survivor whose
\* confidence is at least its own.
C34_NeverOverSuppresses ==
    pp_pc = "suppressed" =>
        /\ IsSubSeq(keep, SortByConf(boxes))
        /\ boxes # <<>> =>
              /\ keep # <<>>
              /\ \A k \in 1..Len(boxes) : keep[1].conf >= boxes[k].conf
        /\ \A k \in 1..Len(boxes) :
              Count(keep, boxes[k]) < Count(boxes, boxes[k])
                => \E s \in 1..Len(keep) :
                      /\ keep[s].conf >= boxes[k].conf
                      /\ Overlapping(keep[s], boxes[k])

\* of three candidates one was removed by a survivor of higher confidence,
\* and the other survivor overlaps the removed one below the threshold
C34_Witness ==
    /\ pp_pc = "suppressed"
    /\ Len(boxes) = 3
    /\ Len(keep) = 2
    /\ \E k \in 1..Len(boxes) :
          /\ Count(keep, boxes[k]) = 0
          /\ \E s \in 1..Len(keep), t \in 1..Len(keep) :
                /\ keep[s].conf > boxes[k].conf
                /\ Overlapping(keep[s], boxes[k])
                /\ InterArea(keep[t], boxes[k]) > 0
                /\ ~Overlapping(keep[t], boxes[k])

\* ------------------------------------------------------------------------
\* Properties of the detector loop, continued (Spec)
\* ------------------------------------------------------------------------
\* the "detections" message and the forwarded "frame" of the processed frame
\* number fid
DetectionsMsg(fid) == [id |-> "detections", frame_id |-> fid]

FrameMsg(fid) == [id |-> "frame", frame_id |-> fid]

\* C35 as stated: every processed frame sends exactly one "detections"
\* message and then exactly one "frame" message with the same frame_id, the
\* frame_id of the processed frames being 0, 1, 2, ..; a skipped frame sends
\* nothing.
C35_ExactlyOneEach ==
    /\ frame_counter = 0
    /\ [][ /\ FrameMeasured =>
                /\ outbox' = <<DetectionsMsg(frame_counter), FrameMsg(frame_counter)>>
                /\ frame_counter' = frame_counter + 1
           /\ ~FrameMeasured => (outbox' = <<>> /\ frame_counter' = frame_counter) ]_vars

\* C35, amended: every processed frame sends at most one "detections"
\* message and then at most one "frame" message, each of them when its send
\* succeeds, both with the frame_id that counts the processed frames before
\* it (0, 1, 2, .. whether or not the sends succeeded); every other step
\* sends nothing and leaves the count alone.
C35_AtMostOneEach ==
    /\ frame_counter = 0
    /\ [][ /\ FrameMeasured =>
                /\ outbox' \in { <<DetectionsMsg(frame_counter), FrameMsg(frame_counter)>>,
                                 <<DetectionsMsg(frame_counter)>>,
                                 <<FrameMsg(frame_counter)>>,
                                 <<>> }
                /\ frame_counter' = frame_counter + 1
           /\ ~FrameMeasured => (outbox' = <<>> /\ frame_counter' = frame_counter) ]_vars

\* the third processed frame was forwarded with frame_id 2 after its
\* "detections" message failed to be sent, with skipped frames before it
C35_Witness ==
    /\ outbox = <<FrameMsg(2)>>
    /\ frame_counter = 3
    /\ skip_counter > 3

\* C36: process_interval changes only on a processed frame and then by at
\* most 1: every other step, a skipped frame included, leaves it unchanged;
\* so does a processed frame measured between 50 ms and 150 ms, and one
\* measured below 50 ms when the interval is 1.
C36_IntervalChangesOnlyWhenProcessed ==
    [][ /\ ~FrameMeasured => process_interval' = process_interval
        /\ FrameMeasured =>
              /\ process_interval' \in (process_interval - 1)..(process_interval + 1)
              /\ (50 <= elapsed_ms' /\ elapsed_ms' <= 150)
                    => process_interval' = process_interval
              /\ (elapsed_ms' < 50 /\ process_interval = 1)
                    => process_interval' = process_interval ]_vars

\* a frame measured at exactly 150 ms left the interval at 3, frames having
\* been skipped before it
C36_Witness ==
    /\ last_log = "Took"
    /\ elapsed_ms = 150
    /\ process_interval = 3
    /\ skip_counter > frame_counter

\* ------------------------------------------------------------------------
\* Properties of the visualizer loop, continued (SpecLoops)
\* ------------------------------------------------------------------------
\* C37: when the visualizer accepts a "detections" buffer of 52 * n bytes,
\* n = 0 included, last_detections is replaced: afterwards it holds exactly n
\* records, record k decoded from the k-th chunk of 52 bytes, in buffer
\* order, and nothing of what it held before.
C37_ReplacedNotAppended ==
    [][ (wire # <<>> /\ wire' = <<>> /\ Len(wire[1]) % 52 = 0) =>
          /\ Len(last_detections') = Len(wire[1]) \div 52
          /\ \A k \in 1..Len(last_detections') :
                last_detections'[k]
                    = DecodeChunk(SubSeq(wire[1], 52 * (k - 1) + 1, 52 * k)) ]_vars

\* the mock detections had been decoded and drawn on a frame, then an empty
\* buffer was accepted and last_detections is empty
C37_Witness ==
    /\ vis_log = "Parsed"
    /\ overlay = MockDetections
    /\ sender = "lib"
    /\ detections = <<>>
    /\ last_detections = <<>>
    /\ wire = <<>>

====
